---- MODULE Spec2Model ----
(***************************************************************************)
(* Session tickets of ScrambleSuit (ticket.py): the ticket codec           *)
(* (SessionTicket.__init__, SessionTicket.issue, decrypt), the protocol    *)
(* state record and the lifecycle of the ticket keys (rotateKeys,          *)
(* loadKeys, checkKeys) together with the key store on disk.               *)
(*                                                                         *)
(* Cryptographic primitives are modelled symbolically: a value returned    *)
(* by mycrypto.strong_random is a fresh positive number, an AES-CBC        *)
(* ciphertext is the term (key, IV, plaintext), an HMAC-SHA256 digest is   *)
(* the term (key, authenticated data).  Plaintexts are byte sequences.     *)
(***************************************************************************)
EXTENDS Integers, Sequences, FiniteSets, TLC

----------------------------------------------------------------------------
(* Program constants *)

IV_LENGTH ==
    16

HMAC_KEY_LENGTH ==
    32

AES_KEY_LENGTH ==
    16

\* "ScrambleSuitTicket" as ASCII codes.
IDENTIFIER ==
    <<83, 99, 114, 97, 109, 98, 108, 101, 83, 117, 105, 116,
      84, 105, 99, 107, 101, 116>>

\* const.TICKET_LENGTH: 16-byte IV, 64-byte encrypted state, 32-byte HMAC.
TICKET_LENGTH ==
    112

\* const.MASTER_KEY_LENGTH
MASTER_KEY_LENGTH ==
    32

\* const.KEY_ROTATION_TIME, the rotation interval in seconds, scaled down to
\* the clock of the model.
KEY_ROTATION_TIME ==
    2

\* const.SESSION_TICKET_LIFETIME, the life time of a ticket in seconds,
\* scaled down to the clock of the model: shorter than the rotation interval,
\* as a ticket can be redeemed after its life time has passed.
SESSION_TICKET_LIFETIME ==
    1

\* AES.block_size
AES_block_size ==
    16

\* SHA256.digest_size
SHA256_digest_size ==
    32

----------------------------------------------------------------------------
(* Bounds of the model *)

\* The clock starts at T0 and advances by at most MaxTicks seconds.
T0 ==
    1000000000

MaxTicks ==
    3

\* Number of values mycrypto.strong_random may hand out.
MaxRand ==
    5

\* Number of live SessionTicket objects.
MaxObjs ==
    1

\* Number of tickets returned by issue() that are remembered.
MaxIssued ==
    2

\* Issue dates of the records isValid() is applied to directly: 0 and
\* T0 .. T0 + MaxDate; the clock is then one of T0 .. T0 + MaxClock.
MaxDate ==
    8

MaxClock ==
    7

----------------------------------------------------------------------------
(* Values *)

\* Python's None, for the module globals and for results.
None ==
    -1

\* A byte that is the output of decrypting under the wrong key or IV.
Garbage ==
    256

NoStore ==
    [creationTime |-> None, HMACKey |-> None, AESKey |-> None]

Bytes(n, b) ==
    [i \in 1..n |-> b]

\* Master keys handed to SessionTicket(): two of the right length, one short.
MasterKeys ==
    {Bytes(32, 17), Bytes(32, 34), Bytes(31, 17)}

\* A pack that writes the four bytes in network (big endian) order.
pack_I_bigEndian(x) ==
    <<(x \div 16777216) % 256, (x \div 65536) % 256, (x \div 256) % 256,
      x % 256>>

\* struct.pack('I', x): four bytes, native (little endian) byte order.
pack_I(x) ==
    <<x % 256, (x \div 256) % 256, (x \div 65536) % 256,
      (x \div 16777216) % 256>>

\* struct.unpack('I', b)[0]
unpack_I(b) ==
    b[1] + 256 * b[2] + 65536 * b[3] + 16777216 * b[4]

\* ProtocolState.__init__: issueDate defaults to the time the module was
\* imported (the default argument is evaluated once).
ProtocolState(masterKey, issueDate) ==
    [identifier |-> IDENTIFIER,
     masterKey  |-> masterKey,
     issueDate  |-> issueDate,
     pad        |-> Bytes(10, 0)]

\* An isValid for which no state ever expires.
isValid_neverExpires(state, t) ==
    IF state.issueDate = 0 THEN "AssertionError" ELSE "True"

\* ProtocolState.isValid at clock t: the assertion fails for an issue date
\* that is 0; otherwise the state is valid unless its life time is over.
isValid(state, t) ==
    IF state.issueDate = 0
    THEN "AssertionError"
    ELSE LET lifetime == t - state.issueDate
         IN  IF lifetime > SESSION_TICKET_LIFETIME THEN "False" ELSE "True"

\* A serialization with the master key in front of the identifier.
repr_keyFirst(state) ==
    pack_I(state.issueDate) \o state.masterKey \o state.identifier \o state.pad

\* ProtocolState.__repr__
repr(state) ==
    pack_I(state.issueDate) \o state.identifier \o state.masterKey \o state.pad

\* AES.new(key, MODE_CBC, IV).encrypt(plain)
AES_encrypt(key, IV, plain) ==
    [k |-> key, iv |-> IV, pt |-> plain, x |-> 0]

\* AES.new(key, MODE_CBC, IV).decrypt(ct): the plaintext under the right key
\* and IV; under the right key and another IV only the first block is
\* garbled (CBC); garbage otherwise.
AES_decrypt(key, IV, ct) ==
    IF ct.k = key /\ ct.x = 0
    THEN IF ct.iv = IV
         THEN ct.pt
         ELSE [i \in 1..Len(ct.pt) |->
                 IF i <= AES_block_size THEN Garbage ELSE ct.pt[i]]
    ELSE Bytes(64, Garbage)

\* HMAC.new(key, IV + cryptedState, digestmod=SHA256).digest()
HMAC_new(key, IV, cryptedState) ==
    [k |-> key, iv |-> IV, ct |-> cryptedState, x |-> 0]

\* 64 zero bytes and 32 zero bytes: not the output of any keyed primitive.
ZeroCt ==
    [k |-> 0, iv |-> 0, pt |-> Bytes(64, 0), x |-> 0]

ZeroTag ==
    [k |-> 0, iv |-> 0, ct |-> ZeroCt, x |-> 0]

\* The all-zero 112-byte buffer.
ZeroTicket ==
    [len |-> TICKET_LENGTH, iv |-> 0, ct |-> ZeroCt, tag |-> ZeroTag]

----------------------------------------------------------------------------
(* State *)

VARIABLES
    HMACKey,        \* module global HMACKey
    AESKey,         \* module global AESKey
    creationTime,   \* module global creationTime
    store,          \* content of const.KEY_STORE, NoStore if the file is absent
    now,            \* int(time.time())
    importTime,     \* time at which the module was imported
    rand,           \* number of values strong_random has returned
    objs,           \* live SessionTicket objects
    issued,         \* tickets returned by issue(), in order
    last,           \* the last call and what it returned
    superseded,     \* history: the latest rotation replaced the epoch with
                    \* authentication key prev by the one with key succ
    threads         \* the threads that run concurrently: position and locals

vars ==
    <<HMACKey, AESKey, creationTime, store, now,
      importTime, rand, objs, issued, last, superseded, threads>>

\* The module globals and the key store, as the key functions see them;
\* err is the exception a call raised, rfail and wfail tell whether it failed
\* to open the key store for reading and for writing.
Globals ==
    [HMACKey |-> HMACKey, AESKey |-> AESKey, creationTime |-> creationTime,
     store |-> store, rand |-> rand, err |-> "none", rfail |-> FALSE,
     wfail |-> FALSE, superseded |-> superseded]

----------------------------------------------------------------------------
(* Key lifecycle *)

\* A rotateKeys that installs the new epoch only once it has been written.
rotateKeys_saveFirst(g, t, wr) ==
    IF wr
    THEN [g EXCEPT !.HMACKey = g.rand + 1,
                   !.AESKey = g.rand + 2,
                   !.creationTime = t,
                   !.rand = g.rand + 2,
                   !.store = [creationTime |-> t, HMACKey |-> g.rand + 1,
                              AESKey |-> g.rand + 2],
                   !.superseded = [prev |-> g.HMACKey, succ |-> g.rand + 1,
                                   at |-> t]]
    ELSE [g EXCEPT !.rand = g.rand + 2, !.wfail = TRUE]

\* rotateKeys(): new keys and creation time; the key store is rewritten
\* unless opening it fails (wr is FALSE), which is only logged.
rotateKeys(g, t, wr) ==
    LET hk == g.rand + 1
        ak == g.rand + 2
    IN  [g EXCEPT !.HMACKey = hk,
                  !.AESKey = ak,
                  !.creationTime = t,
                  !.rand = g.rand + 2,
                  !.store = IF wr
                            THEN [creationTime |-> t, HMACKey |-> hk,
                                  AESKey |-> ak]
                            ELSE g.store,
                  !.wfail = ~wr,
                  !.superseded = [prev |-> g.HMACKey, succ |-> hk, at |-> t]]

\* A loadKeys that never reads the key store and always makes new keys.
loadKeys_alwaysRotate(g, t, rd, wr) ==
    rotateKeys(g, t, wr)

\* loadKeys(): rotate if the key store does not exist, otherwise read it;
\* a failure to open it (rd is FALSE) is only logged and leaves the globals
\* as they were.
loadKeys(g, t, rd, wr) ==
    IF g.store = NoStore
    THEN rotateKeys(g, t, wr)
    ELSE IF rd
         THEN [g EXCEPT !.creationTime = g.store.creationTime,
                        !.HMACKey = g.store.HMACKey,
                        !.AESKey = g.store.AESKey]
         ELSE [g EXCEPT !.rfail = TRUE]

\* A checkKeys that already rotates when the age equals KEY_ROTATION_TIME.
checkKeys_atThreshold(g, t, rd, wr) ==
    LET g1 == IF g.HMACKey = None \/ g.AESKey = None
              THEN loadKeys(g, t, rd, wr)
              ELSE g
    IN  IF g1.creationTime = None
        THEN [g1 EXCEPT !.err = "TypeError"]
        ELSE IF (t - g1.creationTime) >= KEY_ROTATION_TIME
             THEN rotateKeys(g1, t, wr)
             ELSE g1

\* checkKeys(): load the keys if undefined, rotate them if expired.  The
\* subtraction raises TypeError when creationTime is still None.
checkKeys(g, t, rd, wr) ==
    LET g1 == IF g.HMACKey = None \/ g.AESKey = None
              THEN loadKeys(g, t, rd, wr)
              ELSE g
    IN  IF g1.creationTime = None
        THEN [g1 EXCEPT !.err = "TypeError"]
        ELSE IF (t - g1.creationTime) > KEY_ROTATION_TIME
             THEN rotateKeys(g1, t, wr)
             ELSE g1

\* The ways the opens of the key store can turn out during a call that
\* checks the keys: <<rd, wr>> says whether open(KEY_STORE, "rb") and
\* open(KEY_STORE, "wb") succeed.  Only the opens the call reaches count.
OpenOutcomes(g, t) ==
    {io \in BOOLEAN \X BOOLEAN :
        /\ (~io[1]) => checkKeys(g, t, FALSE, TRUE).rfail
        /\ (~io[2]) => checkKeys(g, t, io[1], FALSE).wfail}

----------------------------------------------------------------------------
(* Ticket codec *)

\* What a call returns: the globals it leaves, the outcome ("state", "None",
\* "ok" or the exception raised), the fields of the returned ProtocolState,
\* the primitives invoked in order, and the cause of a rejection.
Result(g, outcome, masterKey, issueDate, trace, cause) ==
    [g |-> g, outcome |-> outcome, masterKey |-> masterKey,
     issueDate |-> issueDate, trace |-> trace, cause |-> cause]

\* A redeem that decrypts and parses first and looks at the HMAC afterwards.
redeem_decryptFirst(g, ticket) ==
    LET hmac == HMAC_new(g.HMACKey, ticket.iv, ticket.ct)
        plainTicket == AES_decrypt(g.AESKey, ticket.iv, ticket.ct)
    IN  IF ~(SubSeq(plainTicket, 5, 22) = IDENTIFIER)
        THEN Result(g, "None", <<>>, None, <<"AES">>, "identifier")
        ELSE IF hmac # ticket.tag
        THEN Result(g, "None", <<>>, None, <<"AES", "HMAC">>, "hmac")
        ELSE Result(g, "state", SubSeq(plainTicket, 23, 54),
                    unpack_I(SubSeq(plainTicket, 1, 4)), <<"AES", "HMAC">>,
                    "none")

\* A comparison that only looks at which key made the tag.
hmacMatches_keyOnly(hmac, tag) ==
    hmac.k = tag.k

\* The comparison of the recomputed HMAC with bytes [80, 112) of the ticket.
hmacMatches(hmac, tag) ==
    hmac = tag

\* decrypt(), after the keys were checked: verify the HMAC, then decrypt
\* and parse the state.
redeem(g, ticket) ==
    LET hmac == HMAC_new(g.HMACKey, ticket.iv, ticket.ct)
        plainTicket == AES_decrypt(g.AESKey, ticket.iv, ticket.ct)
        issueDate == unpack_I(SubSeq(plainTicket, 1, 4))
        identifier == SubSeq(plainTicket, 5, 22)
        masterKey == SubSeq(plainTicket, 23, 54)
    IN  IF ~hmacMatches(hmac, ticket.tag)
        THEN Result(g, "None", <<>>, None, <<"HMAC">>, "hmac")
        ELSE IF ~(identifier = IDENTIFIER)
        THEN Result(g, "None", <<>>, None, <<"HMAC", "AES">>, "identifier")
        ELSE Result(g, "state", masterKey, issueDate, <<"HMAC", "AES">>,
                    "none")

\* A decrypt that checks the keys before it looks at the length.
decrypt_checkFirst(g, ticket, t, rd, wr) ==
    LET g1 == checkKeys(g, t, rd, wr)
    IN  IF g1.err # "none"
        THEN Result(g1, g1.err, <<>>, None, <<>>, "none")
        ELSE IF ticket.len # TICKET_LENGTH
        THEN Result(g1, "AssertionError", <<>>, None, <<>>, "length")
        ELSE redeem(g1, ticket)

\* decrypt(ticket)
decrypt(g, ticket, t, rd, wr) ==
    IF ticket.len # TICKET_LENGTH
    THEN Result(g, "AssertionError", <<>>, None, <<>>, "length")
    ELSE LET g1 == checkKeys(g, t, rd, wr)
         IN  IF g1.err # "none"
             THEN Result(g1, g1.err, <<>>, None, <<>>, "none")
             ELSE redeem(g1, ticket)

\* SessionTicket.__init__(masterKey): the object built, or the exception.
\* arg remembers the argument of the constructor.
SessionTicket(g, masterKey, t, rd, wr, defaultDate) ==
    IF Len(masterKey) # MASTER_KEY_LENGTH
    THEN [g |-> g, outcome |-> "AssertionError", obj |-> <<>>]
    ELSE
    LET g1 == checkKeys(g, t, rd, wr)
        IV == g1.rand + 1
    IN  IF g1.err # "none"
        THEN [g |-> g1, outcome |-> g1.err, obj |-> <<>>]
        ELSE [g |-> [g1 EXCEPT !.rand = g1.rand + 1],
              outcome |-> "ok",
              obj |-> <<[IV |-> IV,
                         state |-> ProtocolState(masterKey, defaultDate),
                         symmTicketKey |-> g1.AESKey,
                         hmacTicketKey |-> g1.HMACKey,
                         arg |-> masterKey]>>]

\* The object after issue(): only the issue date of its state changes.
issueState(self, t) ==
    [self.state EXCEPT !.issueDate = t]

\* SessionTicket.issue(): the ticket returned.
issue(self, t) ==
    LET state == repr(issueState(self, t))
        cryptedState == AES_encrypt(self.symmTicketKey, self.IV, state)
        hmac == HMAC_new(self.hmacTicketKey, self.IV, cryptedState)
    IN  [len |-> IV_LENGTH + Len(state) + SHA256_digest_size,
         iv |-> self.IV, ct |-> cryptedState, tag |-> hmac]

----------------------------------------------------------------------------
(* Inputs presented to decrypt() *)

IssuedTickets ==
    {issued[i].ticket : i \in 1..Len(issued)}

\* A ticket with its IV, its ciphertext or its tag altered, or with the tag
\* of another ticket.
Tampered(tk) ==
    {[tk EXCEPT !.iv = 0 - tk.iv],
     [tk EXCEPT !.ct.x = 1],
     [tk EXCEPT !.tag.x = 1]}
    \cup {[tk EXCEPT !.tag = o.tag] : o \in IssuedTickets \ {tk}}

\* The same bytes cut to 111 or extended to 113 bytes.
WrongLength(tk) ==
    {[tk EXCEPT !.len = TICKET_LENGTH - 1],
     [tk EXCEPT !.len = TICKET_LENGTH + 1]}

Inputs ==
    IssuedTickets
    \cup UNION {Tampered(tk) : tk \in IssuedTickets}
    \cup {ZeroTicket}
    \cup UNION {WrongLength(tk) : tk \in IssuedTickets \cup {ZeroTicket}}

----------------------------------------------------------------------------
(* Initial state and actions *)

\* No call is in progress in any thread: every call runs to its end alone.
NoThreads ==
    <<>>

Idle(op) ==
    [op |-> op, outcome |-> "ok", ticket |-> ZeroTicket, masterKey |-> <<>>,
     issueDate |-> None, trace |-> <<>>, cause |-> "none", rfail |-> FALSE,
     wfail |-> FALSE]

\* A fresh process: nothing loaded, no key store yet.
Init ==
    /\ HMACKey = None
    /\ AESKey = None
    /\ creationTime = None
    /\ store = NoStore
    /\ now = T0
    /\ importTime = T0
    /\ rand = 0
    /\ objs = <<>>
    /\ issued = <<>>
    /\ last = Idle("init")
    /\ superseded = [prev |-> None, succ |-> None, at |-> None]
    /\ threads = NoThreads

SetGlobals(g) ==
    /\ g.rand <= MaxRand
    /\ HMACKey' = g.HMACKey
    /\ AESKey' = g.AESKey
    /\ creationTime' = g.creationTime
    /\ store' = g.store
    /\ rand' = g.rand
    /\ superseded' = g.superseded

\* At most MaxObjs objects are kept alive; the oldest is released first.
Newest(os) ==
    IF Len(os) > MaxObjs THEN Tail(os) ELSE os

\* ticketObj = SessionTicket(masterKey).  rd and wr tell whether the key
\* store can be opened for reading and for writing during the call.
Construct(masterKey, rd, wr) ==
    LET r == SessionTicket(Globals, masterKey, now, rd, wr, importTime)
    IN  /\ SetGlobals(r.g)
        /\ objs' = Newest(objs \o r.obj)
        /\ last' = [Idle("construct") EXCEPT !.outcome = r.outcome,
                                             !.masterKey = masterKey,
                                             !.rfail = r.g.rfail,
                                             !.wfail = r.g.wfail]
        /\ UNCHANGED <<threads, now, importTime, issued>>

\* ticket = ticketObj.issue()
Issue(i) ==
    /\ Len(issued) < MaxIssued
    /\ objs' = [objs EXCEPT ![i].state = issueState(objs[i], now)]
    /\ issued' = Append(issued, [ticket |-> issue(objs[i], now),
                                 k |-> objs[i].arg, t |-> now, obj |-> i])
    /\ last' = [Idle("issue") EXCEPT !.ticket = issue(objs[i], now)]
    /\ UNCHANGED <<threads, HMACKey, AESKey, creationTime, store, now, importTime,
                   rand, superseded>>

\* decrypt(ticket)
Decrypt(ticket, rd, wr) ==
    LET r == decrypt(Globals, ticket, now, rd, wr)
    IN  /\ SetGlobals(r.g)
        /\ last' = [op |-> "decrypt", outcome |-> r.outcome,
                    ticket |-> ticket, masterKey |-> r.masterKey,
                    issueDate |-> r.issueDate, trace |-> r.trace,
                    cause |-> r.cause, rfail |-> r.g.rfail,
                    wfail |-> r.g.wfail]
        /\ UNCHANGED <<threads, now, importTime, objs, issued>>

\* rotateKeys() called directly
Rotate(wr) ==
    LET g == rotateKeys(Globals, now, wr)
    IN  /\ SetGlobals(g)
        /\ last' = [Idle("rotate") EXCEPT !.wfail = g.wfail]
        /\ UNCHANGED <<threads, now, importTime, objs, issued>>

\* One second passes.
Tick ==
    /\ now < T0 + MaxTicks
    /\ now' = now + 1
    /\ last' = Idle("tick")
    /\ UNCHANGED <<threads, HMACKey, AESKey, creationTime, store, importTime, rand,
                   objs, issued, superseded>>

\* The process exits and is started again: the globals are None again and
\* the objects are gone; the key store and the tickets handed out remain.
Restart ==
    /\ HMACKey' = None
    /\ AESKey' = None
    /\ creationTime' = None
    /\ importTime' = now
    /\ objs' = <<>>
    /\ last' = Idle("restart")
    /\ UNCHANGED <<threads, store, now, rand, issued, superseded>>

\* state.isValid() on the ProtocolState the last call returned
IsValid ==
    /\ last.op \in {"decrypt", "ProtocolState"}
    /\ last.outcome = "state"
    /\ last' = [last EXCEPT
                  !.op = "isValid",
                  !.outcome = isValid(ProtocolState(last.masterKey,
                                                    last.issueDate), now)]
    /\ UNCHANGED <<threads, HMACKey, AESKey, creationTime, store, now,
                   importTime, rand, objs, issued, superseded>>

Next ==
    \/ \E k \in MasterKeys, io \in OpenOutcomes(Globals, now) :
          Construct(k, io[1], io[2])
    \/ \E i \in 1..Len(objs) : Issue(i)
    \/ \E tk \in Inputs, io \in OpenOutcomes(Globals, now) :
          Decrypt(tk, io[1], io[2])
    \/ \E wr \in BOOLEAN : Rotate(wr)
    \/ Tick
    \/ Restart
    \/ IsValid

Spec ==
    Init /\ [][Next]_vars

----------------------------------------------------------------------------
(* isValid() on records built directly *)

IssueDates ==
    {0} \cup (T0 .. T0 + MaxDate)

Clocks ==
    T0 .. T0 + MaxClock

\* A fresh process in which state = ProtocolState(masterKey, issueDate) has
\* been built, for any issue date and any clock value.
InitValid ==
    /\ HMACKey = None
    /\ AESKey = None
    /\ creationTime = None
    /\ store = NoStore
    /\ now \in Clocks
    /\ importTime = T0
    /\ rand = 0
    /\ objs = <<>>
    /\ issued = <<>>
    /\ \E d \in IssueDates :
          last = [Idle("ProtocolState") EXCEPT !.outcome = "state",
                                              !.masterKey = Bytes(32, 17),
                                              !.issueDate = d]
    /\ superseded = [prev |-> None, succ |-> None, at |-> None]
    /\ threads = NoThreads

NextValid ==
    IsValid

SpecValid ==
    InitValid /\ [][NextValid]_vars

----------------------------------------------------------------------------
(* Concurrent calls *)

(* Two threads call rotateKeys() while a third calls decrypt() and a       *)
(* fourth builds a SessionTicket.  The functions take no lock, so the      *)
(* threads interleave between any two accesses of the module globals; one  *)
(* step below is one such access.  All opens of the key store succeed and  *)
(* the clock stands still, so checkKeys() finds the keys defined and not   *)
(* expired and changes nothing.                                            *)

Rotators ==
    {"rotA", "rotB"}

Readers ==
    {"dec", "new"}

\* The locals of a thread: pc is the line it executes next; hk, ak and ct
\* are the keys and creation time it generated (rotateKeys) or read
\* (decrypt, SessionTicket); rc, rh and ra are the elements of the list it
\* hands to pickle.dump; out is what decrypt() returned.
Locals(pc) ==
    [pc |-> pc, hk |-> None, ak |-> None, ct |-> None, rc |-> None,
     rh |-> None, ra |-> None, out |-> "none"]

\* The process after SessionTicket(k).issue() at T0 on a fresh start.
Started ==
    SessionTicket([HMACKey |-> None, AESKey |-> None, creationTime |-> None,
                   store |-> NoStore, rand |-> 0, err |-> "none",
                   rfail |-> FALSE, wfail |-> FALSE,
                   superseded |-> [prev |-> None, succ |-> None,
                                  at |-> None]],
                  Bytes(32, 17), T0, TRUE, TRUE, T0)

\* The ticket decrypt() is called with: issued under the first epoch.
ConcTicket ==
    issue(Started.obj[1], T0)

InitConc ==
    /\ HMACKey = Started.g.HMACKey
    /\ AESKey = Started.g.AESKey
    /\ creationTime = Started.g.creationTime
    /\ store = Started.g.store
    /\ now = T0
    /\ importTime = T0
    /\ rand = Started.g.rand
    /\ objs = <<[Started.obj[1] EXCEPT
                   !.state = issueState(Started.obj[1], T0)]>>
    /\ issued = <<[ticket |-> ConcTicket, k |-> Bytes(32, 17), t |-> T0,
                   obj |-> 1]>>
    /\ last = [Idle("issue") EXCEPT !.ticket = ConcTicket]
    /\ superseded = Started.g.superseded
    /\ threads = [t \in Rotators \cup Readers |->
                    Locals(CASE t \in Rotators -> "l64"
                             [] t = "dec" -> "l126"
                             [] t = "new" -> "l200")]

\* Thread t moves on with locals l; nothing but the variables in the step
\* itself changes.
Goto(t, l) ==
    /\ threads' = [threads EXCEPT ![t] = l]
    /\ UNCHANGED <<now, importTime, objs, issued, last, superseded>>

\* rotateKeys, line 64: HMACKey = mycrypto.strong_random(HMAC_KEY_LENGTH)
Rot64(t) ==
    /\ threads[t].pc = "l64"
    /\ HMACKey' = rand + 1
    /\ rand' = rand + 1
    /\ Goto(t, [threads[t] EXCEPT !.pc = "l65", !.hk = rand + 1])
    /\ UNCHANGED <<AESKey, creationTime, store>>

\* rotateKeys, line 65: AESKey = mycrypto.strong_random(AES_KEY_LENGTH)
Rot65(t) ==
    /\ threads[t].pc = "l65"
    /\ AESKey' = rand + 1
    /\ rand' = rand + 1
    /\ Goto(t, [threads[t] EXCEPT !.pc = "l66", !.ak = rand + 1])
    /\ UNCHANGED <<HMACKey, creationTime, store>>

\* rotateKeys, line 66: creationTime = int(time.time())
Rot66(t) ==
    /\ threads[t].pc = "l66"
    /\ creationTime' = now
    /\ Goto(t, [threads[t] EXCEPT !.pc = "l70c", !.ct = now])
    /\ UNCHANGED <<HMACKey, AESKey, store, rand>>

\* rotateKeys, line 70: the list [creationTime, HMACKey, AESKey] is built,
\* one global after the other.
Rot70c(t) ==
    /\ threads[t].pc = "l70c"
    /\ Goto(t, [threads[t] EXCEPT !.pc = "l70h", !.rc = creationTime])
    /\ UNCHANGED <<HMACKey, AESKey, creationTime, store, rand>>

Rot70h(t) ==
    /\ threads[t].pc = "l70h"
    /\ Goto(t, [threads[t] EXCEPT !.pc = "l70a", !.rh = HMACKey])
    /\ UNCHANGED <<HMACKey, AESKey, creationTime, store, rand>>

Rot70a(t) ==
    /\ threads[t].pc = "l70a"
    /\ Goto(t, [threads[t] EXCEPT !.pc = "l70w", !.ra = AESKey])
    /\ UNCHANGED <<HMACKey, AESKey, creationTime, store, rand>>

\* rotateKeys, line 70: pickle.dump writes the list to the key store.
Rot70w(t) ==
    /\ threads[t].pc = "l70w"
    /\ store' = [creationTime |-> threads[t].rc, HMACKey |-> threads[t].rh,
                 AESKey |-> threads[t].ra]
    /\ Goto(t, [threads[t] EXCEPT !.pc = "done"])
    /\ UNCHANGED <<HMACKey, AESKey, creationTime, rand>>

\* decrypt, lines 126-129: the HMAC is computed with HMACKey as it is now and
\* compared with the tag.
Dec126 ==
    /\ threads["dec"].pc = "l126"
    /\ Goto("dec",
            IF hmacMatches(HMAC_new(HMACKey, ConcTicket.iv, ConcTicket.ct),
                           ConcTicket.tag)
            THEN [threads["dec"] EXCEPT !.pc = "l132", !.hk = HMACKey]
            ELSE [threads["dec"] EXCEPT !.pc = "done", !.hk = HMACKey,
                                        !.out = "None"])
    /\ UNCHANGED <<HMACKey, AESKey, creationTime, store, rand>>

\* decrypt, lines 132-144: the state is decrypted with AESKey as it is now.
Dec132 ==
    /\ threads["dec"].pc = "l132"
    /\ Goto("dec",
            [threads["dec"] EXCEPT
               !.pc = "done",
               !.ak = AESKey,
               !.out = redeem([HMACKey |-> threads["dec"].hk,
                               AESKey |-> AESKey], ConcTicket).outcome])
    /\ UNCHANGED <<HMACKey, AESKey, creationTime, store, rand>>

\* SessionTicket.__init__, line 200: self.IV = mycrypto.strong_random(...)
New200 ==
    /\ threads["new"].pc = "l200"
    /\ rand' = rand + 1
    /\ Goto("new", [threads["new"] EXCEPT !.pc = "l206"])
    /\ UNCHANGED <<HMACKey, AESKey, creationTime, store>>

\* SessionTicket.__init__, line 206: self.symmTicketKey = AESKey
New206 ==
    /\ threads["new"].pc = "l206"
    /\ Goto("new", [threads["new"] EXCEPT !.pc = "l207", !.ak = AESKey])
    /\ UNCHANGED <<HMACKey, AESKey, creationTime, store, rand>>

\* SessionTicket.__init__, line 207: self.hmacTicketKey = HMACKey
New207 ==
    /\ threads["new"].pc = "l207"
    /\ Goto("new", [threads["new"] EXCEPT !.pc = "done", !.hk = HMACKey])
    /\ UNCHANGED <<HMACKey, AESKey, creationTime, store, rand>>

NextConc ==
    \/ \E t \in Rotators : Rot64(t)
    \/ \E t \in Rotators : Rot65(t)
    \/ \E t \in Rotators : Rot66(t)
    \/ \E t \in Rotators : Rot70c(t)
    \/ \E t \in Rotators : Rot70h(t)
    \/ \E t \in Rotators : Rot70a(t)
    \/ \E t \in Rotators : Rot70w(t)
    \/ Dec126
    \/ Dec132
    \/ New200
    \/ New206
    \/ New207

SpecConc ==
    InitConc /\ [][NextConc]_vars

----------------------------------------------------------------------------
(* Properties *)

\* The spec's grace window after a rotation, in clock ticks: shorter than
\* the rotation interval.
GRACE_WINDOW ==
    1

Exceptions ==
    {"AssertionError", "TypeError"}

\* The last call was decrypt() of entry i of the issue log, untouched.
Redeemed(i) ==
    /\ last.op = "decrypt"
    /\ last.ticket = issued[i].ticket

\* The epoch whose keys made the ticket is the one in memory.
UnderActiveEpoch(tk) ==
    /\ tk.tag.k = HMACKey
    /\ tk.ct.k = AESKey

\* C1 - Round trip: a ticket returned by issue() for master key k at time t
\* and given to decrypt() while the epoch that protected it is still the
\* active one is accepted, and the state returned has masterKey = k and
\* issueDate = t.
RoundTrip ==
    \A i \in 1..Len(issued) :
        (Redeemed(i) /\ UnderActiveEpoch(issued[i].ticket))
        => /\ last.outcome = "state"
           /\ last.masterKey = issued[i].k
           /\ last.issueDate = issued[i].t

\* A ticket issued after the clock moved, for the second master key, has been
\* redeemed.
RoundTripWitness ==
    \E i \in 1..Len(issued) :
        /\ Redeemed(i)
        /\ UnderActiveEpoch(issued[i].ticket)
        /\ last.outcome = "state"
        /\ issued[i].k = Bytes(32, 34)
        /\ issued[i].t > T0

\* C2 - Key rotation continuity: a ticket issued under an epoch that has been
\* superseded by exactly one rotation is still accepted by decrypt() while
\* the grace window after that rotation lasts.
RotationContinuity ==
    \A i \in 1..Len(issued) :
        (/\ Redeemed(i)
         /\ superseded.prev # None
         /\ issued[i].ticket.tag.k = superseded.prev
         /\ HMACKey = superseded.succ
         /\ now - creationTime <= GRACE_WINDOW)
        => /\ last.outcome = "state"
           /\ last.masterKey = issued[i].k

\* Whether the tag of the ticket last given to decrypt() is the HMAC of its
\* first 80 bytes under the authentication key in memory.
LastTagValid ==
    last.ticket.tag = [k |-> HMACKey, iv |-> last.ticket.iv,
                       ct |-> last.ticket.ct, x |-> 0]

\* C3 - Authenticate-then-decrypt: decrypt() invokes the decryption primitive
\* only after the HMAC was recomputed and found equal to the tag; on a
\* mismatch it returns None without decrypting.
AuthenticateThenDecrypt ==
    last.op = "decrypt"
    => /\ \A j \in 1..Len(last.trace) :
              last.trace[j] = "AES"
              => /\ j > 1
                 /\ last.trace[j - 1] = "HMAC"
                 /\ LastTagValid
       /\ (last.trace # <<>> /\ ~LastTagValid)
          => (last.outcome = "None" /\ last.trace = <<"HMAC">>)

\* A ticket of the active epoch with one part altered was refused after the
\* HMAC step alone.
AuthenticateThenDecryptWitness ==
    /\ last.op = "decrypt"
    /\ last.ticket \in UNION {Tampered(tk) : tk \in IssuedTickets}
    /\ last.ticket.tag.k = HMACKey
    /\ last.trace = <<"HMAC">>
    /\ last.outcome = "None"

\* C4 - Forgery and tamper rejection: decrypt() accepts a 112-byte input only
\* if its tag is the HMAC of its first 80 bytes under the authentication key
\* in memory; a ticket with altered IV, ciphertext or tag and the all-zero
\* buffer are rejected and give no state.
ForgeryRejected ==
    last.op = "decrypt"
    => /\ last.outcome = "state"
          => /\ last.ticket.len = TICKET_LENGTH
             /\ HMACKey # None
             /\ LastTagValid
       /\ (last.ticket \in UNION {Tampered(tk) : tk \in IssuedTickets}
           \/ last.ticket = ZeroTicket)
          => /\ last.outcome # "state"
             /\ last.masterKey = <<>>

\* A ticket of the active epoch with one part altered has been presented.
ForgeryRejectedWitness ==
    /\ last.op = "decrypt"
    /\ last.ticket \in UNION {Tampered(tk) : tk \in IssuedTickets}
    /\ last.ticket.ct.k = AESKey
    /\ last.ticket.ct.x = 1
    /\ last.outcome = "None"

\* C5 - IV freshness: no two calls of issue() use the same IV under the same
\* encryption key, and no two calls return the same bytes.
IVFresh ==
    \A i, j \in 1..Len(issued) :
        i < j => /\ issued[i].ticket # issued[j].ticket
                 /\ ~(/\ issued[i].ticket.iv = issued[j].ticket.iv
                      /\ issued[i].ticket.ct.k = issued[j].ticket.ct.k)

\* C6 - Rotation check before every issuance: a ticket returned by issue() is
\* protected by the epoch in memory when issue() is called, and that epoch
\* is not older than the rotation interval.
IssueUsesActiveEpoch ==
    last.op = "issue"
    => /\ UnderActiveEpoch(last.ticket)
       /\ now - creationTime <= KEY_ROTATION_TIME

\* C7 - Read failure is recoverable: when the keys are undefined and the key
\* store exists but cannot be read, the call ends without an error and with
\* both keys and the creation time set.
ReadFailureRecoverable ==
    last.rfail
    => /\ last.outcome \notin Exceptions
       /\ HMACKey # None
       /\ AESKey # None
       /\ creationTime # None

\* C8 - Write failure is not fatal: when rotateKeys() cannot write the key
\* store, the new keys and creation time are installed all the same and no
\* error reaches the caller; a ticket issued under an epoch that is not in
\* the key store is accepted by decrypt() while that epoch is in memory.
WriteFailureNotFatal ==
    [][/\ last'.wfail
          => /\ last'.outcome \notin Exceptions
             /\ HMACKey' \notin {None, HMACKey, store.HMACKey}
             /\ AESKey' \notin {None, AESKey, store.AESKey}
             /\ HMACKey' > rand /\ AESKey' > rand
             /\ creationTime' = now
             /\ store' = store
       /\ \A i \in 1..Len(issued') :
             (/\ last'.op = "decrypt"
              /\ last'.ticket = issued'[i].ticket
              /\ issued'[i].ticket.tag.k = HMACKey'
              /\ store'.HMACKey # HMACKey')
             => /\ last'.outcome = "state"
                /\ last'.masterKey = issued'[i].k
                /\ last'.issueDate = issued'[i].t]_vars

\* A ticket of an epoch that could not be saved has been redeemed.
WriteFailureNotFatalWitness ==
    \E i \in 1..Len(issued) :
        /\ Redeemed(i)
        /\ UnderActiveEpoch(issued[i].ticket)
        /\ store.HMACKey # HMACKey
        /\ last.outcome = "state"

\* C9 - Malformed length is a rejection value: decrypt() of an input whose
\* length is not 112 returns None.
WrongLengthReturnsNone ==
    (last.op = "decrypt" /\ last.ticket.len # TICKET_LENGTH)
    => last.outcome = "None"

\* C10 - Rejection indistinguishability: two calls of decrypt() that reject
\* their input, whatever the cause (length, tag, identifier), end with the
\* same outcome.
RejectionsIndistinguishable ==
    [][(/\ last.op = "decrypt" /\ last.cause # "none"
        /\ last'.op = "decrypt" /\ last'.cause # "none")
       => last'.outcome = last.outcome]_vars

\* The pairs (authentication key, encryption key) that belong to one epoch:
\* the epoch the threads started with and those the rotating threads made.
EpochPairs ==
    {<<Started.g.HMACKey, Started.g.AESKey>>}
    \cup {<<threads[r].hk, threads[r].ak>> : r \in Rotators}

\* C11 - Atomic rotation under concurrency: a thread in decrypt() or in
\* SessionTicket() that runs while rotateKeys() runs in another thread uses
\* an authentication key and an encryption key of the same epoch.
AtomicRotation ==
    \A t \in Readers :
        (threads[t].hk # None /\ threads[t].ak # None)
        => <<threads[t].hk, threads[t].ak>> \in EpochPairs

\* The records that are the complete triple of one generation event.
GeneratedTriples ==
    {Started.g.store}
    \cup {[creationTime |-> threads[r].ct, HMACKey |-> threads[r].hk,
           AESKey |-> threads[r].ak] : r \in Rotators}

\* C16 - Key-store writes are serialized with rotation: whatever the
\* interleaving of concurrent rotateKeys() calls, the key store holds the
\* complete triple of one generation event, and once all rotations have
\* finished it equals the epoch in memory.
StoreWritesSerialized ==
    /\ store \in GeneratedTriples
    /\ (\A r \in Rotators : threads[r].pc = "done")
       => store = [creationTime |-> creationTime, HMACKey |-> HMACKey,
                   AESKey |-> AESKey]

\* C12 - Lifetime boundary: for every record and every clock value,
\* isValid() returns True if now - issueDate <= SESSION_TICKET_LIFETIME and
\* False otherwise (True at the issue date and for an issue date in the
\* future, False one second after the life time).
IsValidIffWithinLifetime ==
    last.op = "isValid"
    => last.outcome = (IF now - last.issueDate <= SESSION_TICKET_LIFETIME
                       THEN "True" ELSE "False")

\* C13 - Superseded keys expire: once the grace window after the rotation
\* that superseded an epoch has elapsed, decrypt() rejects every ticket issued
\* under that epoch, also after failed key-store writes and restarts.
SupersededKeysExpire ==
    \A i \in 1..Len(issued) :
        (/\ Redeemed(i)
         /\ superseded.prev # None
         /\ issued[i].ticket.tag.k = superseded.prev
         /\ now - superseded.at > GRACE_WINDOW)
        => last.outcome # "state"

\* The step is a call of SessionTicket() or decrypt() that reached
\* checkKeys().
KeysChecked ==
    /\ last'.op \in {"construct", "decrypt"}
    /\ last'.outcome # "AssertionError"

RotationThreshold ==
    [][(/\ HMACKey # None
        /\ AESKey # None
        /\ KeysChecked)
       => IF now - creationTime > KEY_ROTATION_TIME
          THEN /\ HMACKey' > rand
               /\ AESKey' > rand
               /\ HMACKey' # AESKey'
               /\ creationTime' = now
               /\ (~last'.wfail)
                  => store' = [creationTime |-> now, HMACKey |-> HMACKey',
                               AESKey |-> AESKey']
          ELSE UNCHANGED <<HMACKey, AESKey, creationTime, store>>]_vars

\* A key check has run exactly at the threshold, when the epoch in memory was
\* KEY_ROTATION_TIME old, and has left it in place.
RotationThresholdWitness ==
    /\ last.op \in {"construct", "decrypt"}
    /\ last.outcome \in {"ok", "state", "None"}
    /\ creationTime # None
    /\ now - creationTime = KEY_ROTATION_TIME

\* C17 - Wrong-length input causes no work and no state change: decrypt() of
\* an input that is not 112 bytes long ends before any key load, rotation
\* check, HMAC or decryption; keys, creation time and key store stay as they
\* are.
WrongLengthNoWork ==
    [][(last'.op = "decrypt" /\ last'.ticket.len # TICKET_LENGTH)
       => /\ last'.trace = <<>>
          /\ ~last'.rfail
          /\ ~last'.wfail
          /\ UNCHANGED <<HMACKey, AESKey, creationTime, store, rand>>]_vars

\* decrypt() got an input of the wrong length after a restart, when the keys
\* were undefined and the key store held an epoch, and loaded nothing.
WrongLengthNoWorkWitness ==
    /\ last.op = "decrypt"
    /\ last.ticket.len # TICKET_LENGTH
    /\ HMACKey = None
    /\ store # NoStore

\* C18 - Format mismatch is unreachable under correct keys: whenever the tag
\* check of decrypt() passes for a ticket that issue() returned, the
\* identifier found in the decrypted state is IDENTIFIER, so decrypt() never
\* rejects such a ticket for a wrong identifier.
FormatMismatchUnreachable ==
    \A i \in 1..Len(issued) :
        Redeemed(i)
        => /\ last.cause # "identifier"
           /\ (last.trace # <<>> /\ LastTagValid)
              => /\ last.trace = <<"HMAC", "AES">>
                 /\ last.outcome = "state"

\* After at least one rotation that replaced an epoch, a ticket returned by
\* issue() passed the tag check and its identifier was found.
FormatMismatchUnreachableWitness ==
    \E i \in 1..Len(issued) :
        /\ Redeemed(i)
        /\ LastTagValid
        /\ last.trace = <<"HMAC", "AES">>
        /\ last.cause = "none"
        /\ superseded.prev # None

\* C19 - Acceptance is independent of ticket age: decrypt() accepts a ticket
\* of the active epoch and returns its record also when now - issueDate is
\* larger than SESSION_TICKET_LIFETIME; only isValid() on the returned record
\* tells whether the life time is over, and it neither reads nor changes
\* the keys, the creation time or the key store.
AcceptanceIndependentOfAge ==
    [][/\ \A i \in 1..Len(issued) :
             (/\ last'.op = "decrypt"
              /\ last'.ticket = issued[i].ticket
              /\ issued[i].ticket.tag.k = HMACKey'
              /\ issued[i].ticket.ct.k = AESKey'
              /\ now - issued[i].t > SESSION_TICKET_LIFETIME)
             => /\ last'.outcome = "state"
                /\ last'.masterKey = issued[i].k
                /\ last'.issueDate = issued[i].t
       /\ (last'.op = "isValid")
          => /\ last.op = "decrypt"
             /\ last.outcome = "state"
             /\ last'.outcome = (IF now - last.issueDate
                                      > SESSION_TICKET_LIFETIME
                                  THEN "False" ELSE "True")
             /\ UNCHANGED <<HMACKey, AESKey, creationTime, store, rand>>]_vars

\* decrypt() returned the record of a ticket whose life time was over, and
\* isValid() on that record returned False.
AcceptanceIndependentOfAgeWitness ==
    \E i \in 1..Len(issued) :
        /\ last.op = "isValid"
        /\ last.ticket = issued[i].ticket
        /\ last.issueDate = issued[i].t
        /\ now - issued[i].t > SESSION_TICKET_LIFETIME
        /\ last.outcome = "False"

====
